---- MODULE Spec2Model ----
(***************************************************************************)
(* Concurrent execution core of TakeAwayPlatform's RestServer              *)
(* (src/src/http/rest_server.cpp): the lifecycle controller start()/stop(),*)
(* the listener thread run_server(), the database handle pool              *)
(* acquire_db_handler()/release_db_handler(), and the worker pool that     *)
(* runs the work items enqueued by the route callbacks.                    *)
(*                                                                         *)
(* Threads: the controllers (callers of start/stop/~RestServer), one       *)
(* listener thread per accepted start(), the workers of threadPool, and    *)
(* the threads on which the route callbacks of setup_routes() run.         *)
(* Every action is one access of one thread to shared state; a section    *)
(* that runs entirely under one std::lock_guard is one action.             *)
(***************************************************************************)
EXTENDS Integers, Sequences, FiniteSets, TLC

\* ---------------------------------------------------------------- bounds
NumWorkers == 2      \* workers of threadPool (hardware_concurrency())
WarmSize == 1        \* database.pool_size of the configuration
MaxItems == 2        \* requests that reach a route callback
MaxStarts == 2       \* start() calls that pass the guard
MaxPoolSize == 2     \* largest database.pool_size the constructor is given

Controllers == {1, 2}
Workers == 1..NumWorkers
Listeners == 1..MaxStarts
Items == 1..MaxItems
Handles == 1..(WarmSize + MaxItems)

NoThread == 0        \* a std::thread that is not joinable / no owner of stopMtx
Free == <<"free", 0>>   \* dbPoolMutex is not locked
C(c) == <<"controller", c>>
W(w) == <<"worker", w>>
NoHandle == 0        \* an empty std::unique_ptr<DatabaseHandler>
NoItem == 0
\* a httplib::Response no callback has touched
NoResponse == [status |-> 0, body |-> ""]

\* no id generator is running
NoCall == [fn |-> "none", pc |-> "none", seed |-> 0, length |-> 0,
           i |-> 0, j |-> 0, out |-> <<>>]

VARIABLES
    isRunning,       \* RestServer::isRunning
    stopRequested,   \* RestServer::stopRequested
    serverThread,    \* RestServer::serverThread: NoThread or the listener it owns
    listener,        \* position of each listener thread in run_server
    stopMtx,         \* owner of RestServer::stopMtx
    dbPoolMutex,     \* owner of RestServer::dbPoolMutex
    dbPool,          \* RestServer::dbPool, the idle queue (front first)
    cpc,             \* position of each controller in start()/stop()/~RestServer
    inDtor,          \* the controller that runs ~RestServer, or NoThread
    crashed,         \* std::terminate was called
    queue,           \* work queue of threadPool
    submitted,       \* number of work items enqueued so far
    poolStop,        \* threadPool was asked to shut down
    wpc,             \* position of each worker
    witem,           \* the work item a worker executes
    handler,         \* the work item's local db_handler
    live,            \* DatabaseHandler objects constructed and not destroyed
    constructed,     \* handles constructed on demand by acquire_db_handler
    drained,         \* handles discarded by the drain loop of stop()
    stopSeen,        \* per controller: items submitted when its stop() began
    svc,             \* Service State of the lifecycle state machine
    taken,           \* the work items in the order the workers dequeued them
    kind,            \* the route of each request that is being served
    cb,              \* position of each request's route callback
    fut,             \* shared state of each request's packaged_task/future
    hpc,             \* position of the /health callback
    hres,            \* the Response the /health callback filled in
    ipc,             \* position of the /order/create callback
    ihandler,        \* the /order/create callback's local db
    cfg,             \* config["database"]: <<>> or <<pool_size>>
    ctor,            \* position of the constructor RestServer::RestServer
    peak,            \* most handles that were checked out at the same time
    gen              \* the call of generate_uuid / generate_short_id in progress

\* svc follows the lifecycle state machine: Running when start() sets
\* isRunning (line 44), StopRequested when stop() sets stopRequested
\* (line 97), Stopped when that stop() returns (line 132).  A listener
\* that ends on its own (line 79) leaves the state machine: ListenerExited.
\* stopSeen remembers, while a stop() is in flight, how many work items had
\* been submitted when it was called.

vars == <<isRunning, stopRequested, serverThread, listener, stopMtx,
          dbPoolMutex, dbPool, cpc, inDtor, crashed, queue,
          submitted, poolStop, wpc, witem, handler, live, constructed,
          drained, stopSeen, svc, taken, kind, cb, fut, hpc, hres, ipc,
          ihandler, cfg, ctor, peak, gen>>

lifeVars == <<isRunning, stopRequested, serverThread, listener, stopMtx>>
poolVars == <<dbPoolMutex, dbPool, live, constructed, drained>>
workVars == <<queue, submitted, poolStop, wpc, witem, handler>>
healthVars == <<hpc, hres>>
routeVars == <<kind, cb, fut>>
inlineVars == <<ipc, ihandler>>
ctorVars == <<cfg, ctor>>

\* ------------------------------------------------------- pure operators
RECURSIVE SeqToSet(_)
SeqToSet(s) == IF s = <<>> THEN {} ELSE {Head(s)} \cup SeqToSet(Tail(s))

\* std::queue::front / pop / push on dbPool
Front(q) == Head(q)
\* the front handle is read but not removed
PopKeepsFront(q) == q
Pop(q) == Tail(q)
\* the handle is put in front of the idle ones
PushFront(q, h) == <<h>> \o q
Push(q, h) == Append(q, h)

\* init_db_pool: pool_size handles pushed in construction order
RECURSIVE WarmPool(_)
WarmPool(n) == IF n = 0 THEN <<>> ELSE Push(WarmPool(n - 1), n)

\* line 147: config.get("pool_size", 10).asInt()
DefaultPoolSize == 10
\* an absent key gives no handles
PoolSizeNoDefault(c) == IF c = <<>> THEN 0 ELSE c[1]
PoolSize(c) == IF c = <<>> THEN DefaultPoolSize ELSE c[1]

\* create_db_handler: the next DatabaseHandler object (the constructor has
\* made the first PoolSize(cfg) of them)
NewHandle == PoolSize(cfg) + constructed + 1

Max(a, b) == IF a >= b THEN a ELSE b
\* the handles that are checked out: held by a work item or by the
\* /order/create callback
Leased == Cardinality({w \in Workers : handler[w] # NoHandle})
            + (IF ihandler # NoHandle THEN 1 ELSE 0)

\* std::lock_guard<std::mutex> lock(dbPoolMutex) can be taken
LockFree(m) == m = Free

Alive == /\ ctor = "done"
         /\ ~crashed
         /\ \A c \in Controllers : cpc[c] # "destroyed"

StartPcs == {"start_rejected", "start_set", "start_req", "start_spawn"}
StopPcs == {"stop_noop", "stop_req", "stop_srv", "stop_lock", "wait_blocked",
            "stop_join", "stop_timeout", "drain_joined", "drain_timeout"}
\* the positions of a stop() that passed the guard
StopSeqPcs == StopPcs \ {"stop_noop"}
DtorPcs == {"dtor_members", "dtor_join"}

\* the members of a RestServer before the body of its constructor runs
FreshMembers ==
    /\ isRunning = FALSE
    /\ stopRequested = FALSE
    /\ serverThread = NoThread
    /\ listener = [l \in Listeners |-> "none"]
    /\ stopMtx = NoThread
    /\ dbPoolMutex = Free
    /\ cpc = [c \in Controllers |-> "idle"]
    /\ inDtor = NoThread
    /\ crashed = FALSE
    /\ queue = <<>>
    /\ submitted = 0
    /\ poolStop = FALSE
    /\ witem = [w \in Workers |-> NoItem]
    /\ handler = [w \in Workers |-> NoHandle]
    /\ constructed = 0
    /\ drained = 0
    /\ stopSeen = [c \in Controllers |-> 0]
    /\ svc = "NotStarted"
    /\ taken = <<>>
    /\ kind = [i \in Items |-> "none"]
    /\ cb = [i \in Items |-> "none"]
    /\ fut = [i \in Items |-> "none"]
    /\ hpc = "idle"
    /\ hres = NoResponse
    /\ ipc = "idle"
    /\ ihandler = NoHandle
    /\ peak = 0
    /\ gen = NoCall

\* line 14: threadPool has one worker per hardware thread
Fresh ==
    /\ FreshMembers
    /\ wpc = [w \in Workers |-> "idle"]

\* line 14: std::thread::hardware_concurrency() may return any number, 0
\* when it cannot be determined; a worker that was not created is absent
HardwareConcurrency == 0..NumWorkers
FreshOn(n) ==
    /\ FreshMembers
    /\ wpc = [w \in Workers |-> IF w <= n THEN "idle" ELSE "absent"]

\* the state after construction with database.pool_size = WarmSize
Init ==
    /\ Fresh
    /\ cfg = <<WarmSize>>
    /\ ctor = "done"
    /\ dbPool = WarmPool(WarmSize)
    /\ live = 1..WarmSize

\* ------------------------------------------------- RestServer::RestServer
\* the configurations the constructor is given: database.pool_size absent,
\* or a size
Configs == {<<>>} \cup {<<n>> : n \in 0..MaxPoolSize}

\* line 14-25: the constructor has loaded the configuration and calls
\* init_db_pool
CtorInit ==
    /\ Fresh
    /\ cfg \in Configs
    /\ ctor = "init_pool"
    /\ dbPool = <<>>
    /\ live = {}

\* line 157-159: one round of the loop, dbPool.push(create_db_handler())
CtorPush ==
    /\ ctor = "init_pool"
    /\ Len(dbPool) < PoolSize(cfg)
    /\ dbPool' = Push(dbPool, Len(dbPool) + 1)
    /\ live' = live \cup {Len(dbPool) + 1}
    /\ UNCHANGED <<lifeVars, dbPoolMutex, constructed, drained, workVars,
                   cpc, inDtor, crashed, stopSeen, svc, taken, healthVars,
                   routeVars, inlineVars, ctorVars, peak, gen>>

\* line 158, 165: create_db_handler() throws; the constructor ends with the
\* exception and the members built so far are destroyed
CtorThrow ==
    /\ ctor = "init_pool"
    /\ Len(dbPool) < PoolSize(cfg)
    /\ dbPool' = <<>>
    /\ live' = {}
    /\ ctor' = "failed"
    /\ UNCHANGED <<lifeVars, dbPoolMutex, constructed, drained, workVars,
                   cpc, inDtor, crashed, stopSeen, svc, taken, healthVars,
                   routeVars, inlineVars, cfg, peak, gen>>

\* line 157, 160, 27-29: the loop is over, init_db_pool and the constructor
\* return
CtorDone ==
    /\ ctor = "init_pool"
    /\ ~(Len(dbPool) < PoolSize(cfg))
    /\ ctor' = "done"
    /\ UNCHANGED <<lifeVars, poolVars, workVars, cpc, inDtor, crashed,
                   stopSeen, svc, taken, healthVars, routeVars, inlineVars,
                   cfg, peak, gen>>

\* ------------------------------------------------------------- start()
SpawnedListeners == {l \in Listeners : listener[l] # "none"}
StartsInFlight == {c \in Controllers : cpc[c] \in StartPcs \ {"start_rejected"}}

\* start() without its guard
StartUnguarded(c) ==
    /\ Alive /\ inDtor = NoThread
    /\ cpc[c] = "idle"
    /\ Cardinality(SpawnedListeners) + Cardinality(StartsInFlight) < MaxStarts
    /\ cpc' = [cpc EXCEPT ![c] = "start_set"]
    /\ UNCHANGED <<lifeVars, poolVars, workVars, inDtor, crashed, stopSeen, svc>>
    /\ UNCHANGED <<healthVars, routeVars, inlineVars, taken, ctorVars, peak, gen>>

\* line 38: the guard of start() reads isRunning
StartCall(c) ==
    /\ Alive /\ inDtor = NoThread
    /\ cpc[c] = "idle"
    /\ IF isRunning
       THEN cpc' = [cpc EXCEPT ![c] = "start_rejected"]
       ELSE /\ Cardinality(SpawnedListeners) + Cardinality(StartsInFlight) < MaxStarts
            /\ cpc' = [cpc EXCEPT ![c] = "start_set"]
    /\ UNCHANGED <<lifeVars, poolVars, workVars, inDtor, crashed, stopSeen, svc>>
    /\ UNCHANGED <<healthVars, routeVars, inlineVars, taken, ctorVars, peak, gen>>

\* line 39-41: "Server is already running.", return
StartRejected(c) ==
    /\ Alive
    /\ cpc[c] = "start_rejected"
    /\ cpc' = [cpc EXCEPT ![c] = "idle"]
    /\ UNCHANGED <<lifeVars, poolVars, workVars, inDtor, crashed, stopSeen, svc>>
    /\ UNCHANGED <<healthVars, routeVars, inlineVars, taken, ctorVars, peak, gen>>

\* line 44: isRunning = true
StartSetRunning(c) ==
    /\ Alive
    /\ cpc[c] = "start_set"
    /\ isRunning' = TRUE
    /\ svc' = "Running"
    /\ cpc' = [cpc EXCEPT ![c] = "start_req"]
    /\ UNCHANGED <<stopRequested, serverThread, listener, stopMtx, poolVars,
                   workVars, inDtor, crashed, stopSeen>>
    /\ UNCHANGED <<healthVars, routeVars, inlineVars, taken, ctorVars, peak, gen>>

\* line 45: stopRequested = false
StartClearStop(c) ==
    /\ Alive
    /\ cpc[c] = "start_req"
    /\ stopRequested' = FALSE
    /\ cpc' = [cpc EXCEPT ![c] = "start_spawn"]
    /\ UNCHANGED <<isRunning, serverThread, listener, stopMtx, poolVars,
                   workVars, inDtor, crashed, stopSeen, svc>>
    /\ UNCHANGED <<healthVars, routeVars, inlineVars, taken, ctorVars, peak, gen>>

\* the listener thread the next std::thread(...) creates
NewListener == CHOOSE k \in Listeners :
                  /\ listener[k] = "none"
                  /\ \A j \in Listeners : listener[j] = "none" => k <= j

\* line 48-53: serverThread = std::thread(...); move-assigning to a joinable
\* std::thread calls std::terminate
StartSpawn(c) ==
    /\ Alive
    /\ cpc[c] = "start_spawn"
    /\ IF serverThread # NoThread
       THEN /\ crashed' = TRUE
            /\ UNCHANGED <<serverThread, listener, cpc>>
       ELSE /\ serverThread' = NewListener
            /\ listener' = [listener EXCEPT ![NewListener] = "setup"]
            /\ cpc' = [cpc EXCEPT ![c] = "idle"]
            /\ UNCHANGED crashed
    /\ UNCHANGED <<isRunning, stopRequested, stopMtx, poolVars, workVars,
                   inDtor, stopSeen, svc>>
    /\ UNCHANGED <<healthVars, routeVars, inlineVars, taken, ctorVars, peak, gen>>

\* -------------------------------------------------------- run_server()
\* line 61-66: setup_routes() done, server.listen() is accepting
ListenBegin(l) ==
    /\ Alive
    /\ listener[l] = "setup"
    /\ listener' = [listener EXCEPT ![l] = "listen"]
    /\ UNCHANGED <<isRunning, stopRequested, serverThread, stopMtx, poolVars,
                   workVars, cpc, inDtor, crashed, stopSeen, svc>>
    /\ UNCHANGED <<healthVars, routeVars, inlineVars, taken, ctorVars, peak, gen>>

\* line 66-76: server.listen() returns false (bind failed) or throws
ListenFail(l) ==
    /\ Alive
    /\ listener[l] = "setup"
    /\ listener' = [listener EXCEPT ![l] = "exited"]
    /\ UNCHANGED <<isRunning, stopRequested, serverThread, stopMtx, poolVars,
                   workVars, cpc, inDtor, crashed, stopSeen, svc>>
    /\ UNCHANGED <<healthVars, routeVars, inlineVars, taken, ctorVars, peak, gen>>

\* line 66-70: server.listen() returns after server.stop() reached it
ListenReturn(l) ==
    /\ Alive
    /\ listener[l] = "stopping"
    /\ listener' = [listener EXCEPT ![l] = "exited"]
    /\ UNCHANGED <<isRunning, stopRequested, serverThread, stopMtx, poolVars,
                   workVars, cpc, inDtor, crashed, stopSeen, svc>>
    /\ UNCHANGED <<healthVars, routeVars, inlineVars, taken, ctorVars, peak, gen>>

\* line 79: isRunning = false
RunServerClear(l) ==
    /\ Alive
    /\ listener[l] = "exited"
    /\ isRunning' = FALSE
    /\ listener' = [listener EXCEPT ![l] = "notify"]
    /\ svc' = IF svc = "Running" THEN "ListenerExited" ELSE svc
    /\ UNCHANGED <<stopRequested, serverThread, stopMtx, poolVars, workVars,
                   cpc, inDtor, crashed, stopSeen>>
    /\ UNCHANGED <<healthVars, routeVars, inlineVars, taken, ctorVars, peak, gen>>

\* line 82-85: stopCv.notify_one(), then the thread ends.  A waiter of
\* wait_for may wake at any time, so the notification itself changes nothing.
RunServerNotify(l) ==
    /\ Alive
    /\ listener[l] = "notify"
    /\ listener' = [listener EXCEPT ![l] = "done"]
    /\ UNCHANGED <<isRunning, stopRequested, serverThread, stopMtx, poolVars,
                   workVars, cpc, inDtor, crashed, stopSeen, svc>>
    /\ UNCHANGED <<healthVars, routeVars, inlineVars, taken, ctorVars, peak, gen>>

\* -------------------------------------------------------------- stop()
AfterStop(c, d) == IF d = c THEN "dtor_members" ELSE "idle"

\* line 89: the guard of stop() reads isRunning
StopGuard(c) ==
    /\ cpc[c] = "idle"
    /\ IF ~isRunning
       THEN /\ cpc' = [cpc EXCEPT ![c] = "stop_noop"]
            /\ UNCHANGED stopSeen
       ELSE /\ cpc' = [cpc EXCEPT ![c] = "stop_req"]
            /\ stopSeen' = [stopSeen EXCEPT ![c] = submitted]
    /\ UNCHANGED <<lifeVars, poolVars, workVars, crashed, svc>>
    /\ UNCHANGED <<healthVars, routeVars, inlineVars, taken, ctorVars, peak, gen>>

StopCall(c) ==
    /\ Alive /\ inDtor = NoThread
    /\ StopGuard(c)
    /\ UNCHANGED inDtor

\* line 90-92: "Server already stop.", return
StopNoop(c) ==
    /\ Alive
    /\ cpc[c] = "stop_noop"
    /\ cpc' = [cpc EXCEPT ![c] = AfterStop(c, inDtor)]
    /\ UNCHANGED <<lifeVars, poolVars, workVars, inDtor, crashed, stopSeen, svc>>
    /\ UNCHANGED <<healthVars, routeVars, inlineVars, taken, ctorVars, peak, gen>>

\* line 95-97: stopRequested = true
StopRequest(c) ==
    /\ Alive
    /\ cpc[c] = "stop_req"
    /\ stopRequested' = TRUE
    /\ svc' = "StopRequested"
    /\ cpc' = [cpc EXCEPT ![c] = "stop_srv"]
    /\ UNCHANGED <<isRunning, serverThread, listener, stopMtx, poolVars,
                   workVars, inDtor, crashed, stopSeen>>
    /\ UNCHANGED <<healthVars, routeVars, inlineVars, taken, ctorVars, peak, gen>>

\* line 100: server.stop() reaches a listener that is inside listen(); one
\* that has not entered listen() yet does not see it
ServerStop(c) ==
    /\ Alive
    /\ cpc[c] = "stop_srv"
    /\ listener' = [l \in Listeners |->
                      IF listener[l] = "listen" THEN "stopping" ELSE listener[l]]
    /\ cpc' = [cpc EXCEPT ![c] = "stop_lock"]
    /\ UNCHANGED <<isRunning, stopRequested, serverThread, stopMtx, poolVars,
                   workVars, inDtor, crashed, stopSeen, svc>>
    /\ UNCHANGED <<healthVars, routeVars, inlineVars, taken, ctorVars, peak, gen>>

\* line 103-106: lock stopMtx; wait_for evaluates the predicate with the
\* lock held: true ends the wait, false releases stopMtx and blocks
StopWait(c) ==
    /\ Alive
    /\ cpc[c] = "stop_lock"
    /\ stopMtx = NoThread
    /\ IF ~isRunning
       THEN /\ cpc' = [cpc EXCEPT ![c] = "stop_join"]
            /\ stopMtx' = c
       ELSE /\ cpc' = [cpc EXCEPT ![c] = "wait_blocked"]
            /\ UNCHANGED stopMtx
    /\ UNCHANGED <<isRunning, stopRequested, serverThread, listener, poolVars,
                   workVars, inDtor, crashed, stopSeen, svc>>
    /\ UNCHANGED <<healthVars, routeVars, inlineVars, taken, ctorVars, peak, gen>>

\* line 104: the waiter wakes (notify_one or spuriously) before the five
\* seconds are over, re-locks stopMtx and finds the predicate true (when it
\* finds it false it blocks again and nothing has changed)
WaitWake(c) ==
    /\ Alive
    /\ cpc[c] = "wait_blocked"
    /\ stopMtx = NoThread
    /\ ~isRunning
    /\ stopMtx' = c
    /\ cpc' = [cpc EXCEPT ![c] = "stop_join"]
    /\ UNCHANGED <<isRunning, stopRequested, serverThread, listener, poolVars,
                   workVars, inDtor, crashed, stopSeen, svc>>
    /\ UNCHANGED <<healthVars, routeVars, inlineVars, taken, ctorVars, peak, gen>>

\* line 104: the five seconds are over; wait_for re-locks stopMtx and
\* returns the value of the predicate, here false
WaitTimeout(c) ==
    /\ Alive
    /\ cpc[c] = "wait_blocked"
    /\ stopMtx = NoThread
    /\ isRunning
    /\ stopMtx' = c
    /\ cpc' = [cpc EXCEPT ![c] = "stop_timeout"]
    /\ UNCHANGED <<isRunning, stopRequested, serverThread, listener, poolVars,
                   workVars, inDtor, crashed, stopSeen, svc>>
    /\ UNCHANGED <<healthVars, routeVars, inlineVars, taken, ctorVars, peak, gen>>

\* line 108-114: join the listener thread; join() blocks until it has ended
StopJoin(c) ==
    /\ Alive
    /\ cpc[c] = "stop_join"
    /\ serverThread # NoThread => listener[serverThread] = "done"
    /\ serverThread' = NoThread
    /\ cpc' = [cpc EXCEPT ![c] = "drain_joined"]
    /\ UNCHANGED <<isRunning, stopRequested, listener, stopMtx, poolVars,
                   workVars, inDtor, crashed, stopSeen, svc>>
    /\ UNCHANGED <<healthVars, routeVars, inlineVars, taken, ctorVars, peak, gen>>

\* the timeout branch of stop() clearing isRunning itself
StopDetachClears(c) ==
    /\ Alive
    /\ cpc[c] = "stop_timeout"
    /\ serverThread' = NoThread
    /\ isRunning' = FALSE
    /\ cpc' = [cpc EXCEPT ![c] = "drain_timeout"]
    /\ UNCHANGED <<stopRequested, listener, stopMtx, poolVars,
                   workVars, inDtor, crashed, stopSeen, svc>>
    /\ UNCHANGED <<healthVars, routeVars, inlineVars, taken, ctorVars, peak, gen>>

\* line 118-124: the warning, then serverThread.detach()
StopDetach(c) ==
    /\ Alive
    /\ cpc[c] = "stop_timeout"
    /\ serverThread' = NoThread
    /\ cpc' = [cpc EXCEPT ![c] = "drain_timeout"]
    /\ UNCHANGED <<isRunning, stopRequested, listener, stopMtx, poolVars,
                   workVars, inDtor, crashed, stopSeen, svc>>
    /\ UNCHANGED <<healthVars, routeVars, inlineVars, taken, ctorVars, peak, gen>>

\* the drain of stop() returning without unlocking stopMtx
StopDrainKeepsStopMtx(c) ==
    /\ Alive
    /\ cpc[c] \in {"drain_joined", "drain_timeout"}
    /\ LockFree(dbPoolMutex)
    /\ live' = live \ SeqToSet(dbPool)
    /\ drained' = drained + Len(dbPool)
    /\ dbPool' = <<>>
    /\ svc' = "Stopped"
    /\ cpc' = [cpc EXCEPT ![c] = AfterStop(c, inDtor)]
    /\ stopSeen' = [stopSeen EXCEPT ![c] = 0]
    /\ UNCHANGED <<isRunning, stopRequested, serverThread, listener, stopMtx,
                   dbPoolMutex, constructed, workVars, inDtor,
                   crashed>>
    /\ UNCHANGED <<healthVars, routeVars, inlineVars, taken, ctorVars, peak, gen>>

\* line 128-132: lock dbPoolMutex, pop every idle handle, return; both
\* locks are released on return
StopDrain(c) ==
    /\ Alive
    /\ cpc[c] \in {"drain_joined", "drain_timeout"}
    /\ LockFree(dbPoolMutex)
    /\ live' = live \ SeqToSet(dbPool)
    /\ drained' = drained + Len(dbPool)
    /\ dbPool' = <<>>
    /\ stopMtx' = NoThread
    /\ svc' = "Stopped"
    /\ cpc' = [cpc EXCEPT ![c] = AfterStop(c, inDtor)]
    /\ stopSeen' = [stopSeen EXCEPT ![c] = 0]
    /\ UNCHANGED <<isRunning, stopRequested, serverThread, listener,
                   dbPoolMutex, constructed, workVars, inDtor,
                   crashed>>
    /\ UNCHANGED <<healthVars, routeVars, inlineVars, taken, ctorVars, peak, gen>>

\* -------------------------------------------------------- ~RestServer()
\* line 31-34: the destructor calls stop(); nobody else uses the object
DtorCall(c) ==
    /\ Alive /\ inDtor = NoThread
    /\ \A d \in Controllers : cpc[d] = "idle"
    /\ inDtor' = c
    /\ StopGuard(c)

\* the members are destroyed: a joinable serverThread calls std::terminate,
\* threadPool is asked to shut down
DtorMembers(c) ==
    /\ Alive
    /\ cpc[c] = "dtor_members"
    /\ IF serverThread # NoThread
       THEN /\ crashed' = TRUE
            /\ UNCHANGED <<poolStop, cpc>>
       ELSE /\ poolStop' = TRUE
            /\ cpc' = [cpc EXCEPT ![c] = "dtor_join"]
            /\ UNCHANGED crashed
    /\ UNCHANGED <<lifeVars, poolVars, queue, submitted, wpc, witem, handler,
                   inDtor, stopSeen, svc>>
    /\ UNCHANGED <<healthVars, routeVars, inlineVars, taken, ctorVars, peak, gen>>

\* threadPool's shutdown returns once every worker has left its loop
DtorJoin(c) ==
    /\ Alive
    /\ cpc[c] = "dtor_join"
    /\ \A w \in Workers : wpc[w] = "retired"
    /\ cpc' = [cpc EXCEPT ![c] = "destroyed"]
    /\ UNCHANGED <<lifeVars, poolVars, workVars, inDtor, crashed, stopSeen, svc>>
    /\ UNCHANGED <<healthVars, routeVars, inlineVars, taken, ctorVars, peak, gen>>

\* ------------------------------------------------------ route callbacks
\* the routes whose callback enqueues a closure that captures the Response
\* by reference and returns at once: /menu (204-213), /merchant/add_item
\* (237-285)
FireAndForget == {"menu", "add_item"}
\* the routes whose callback enqueues a std::packaged_task and blocks in
\* future.get(): /merchant/add (287-359), /merchants (1371-1418)
Bridged == {"merchant_add", "merchants"}

\* a request reaches a route callback of a listening server
Accepting == \E l \in Listeners : listener[l] \in {"listen", "stopping"}

\* the closure is appended twice
EnqueueTwice(k) ==
    /\ Alive
    /\ Accepting
    /\ ~poolStop
    /\ submitted < MaxItems
    /\ submitted' = submitted + 1
    /\ queue' = Append(Append(queue, submitted + 1), submitted + 1)
    /\ kind' = [kind EXCEPT ![submitted + 1] = k]

\* threadPool.enqueue(closure): the closure is appended to the work queue
Enqueue(k) ==
    /\ Alive
    /\ Accepting
    /\ ~poolStop
    /\ submitted < MaxItems
    /\ submitted' = submitted + 1
    /\ queue' = Append(queue, submitted + 1)
    /\ kind' = [kind EXCEPT ![submitted + 1] = k]

\* line 204-213: the /menu callback hands the work item to
\* threadPool.enqueue and returns
Request ==
    /\ Enqueue("menu")
    /\ cb' = [cb EXCEPT ![submitted + 1] = "returned"]
    /\ UNCHANGED <<lifeVars, poolVars, poolStop, wpc, witem, handler, cpc,
                   inDtor, crashed, stopSeen, svc, taken, fut, healthVars,
                   inlineVars, ctorVars, peak, gen>>

\* line 237-285: the /merchant/add_item callback does the same with a
\* closure that has a try/catch of its own
AddItemRequest ==
    /\ Enqueue("add_item")
    /\ cb' = [cb EXCEPT ![submitted + 1] = "returned"]
    /\ UNCHANGED <<lifeVars, poolVars, poolStop, wpc, witem, handler, cpc,
                   inDtor, crashed, stopSeen, svc, taken, fut, healthVars,
                   inlineVars, ctorVars, peak, gen>>

\* line 302-352, 1381-1409: the callback wraps the work in a packaged_task,
\* enqueues [task_ptr] { (*task_ptr)(); } and blocks in result_future.get()
BridgedRequest(k) ==
    /\ k \in Bridged
    /\ Enqueue(k)
    /\ cb' = [cb EXCEPT ![submitted + 1] = "waiting"]
    /\ fut' = [fut EXCEPT ![submitted + 1] = "pending"]
    /\ UNCHANGED <<lifeVars, poolVars, poolStop, wpc, witem, handler, cpc,
                   inDtor, crashed, stopSeen, svc, taken, healthVars,
                   inlineVars, ctorVars, peak, gen>>

\* the request has been served: its closure and what it captured are
\* destroyed
RequestOver(i) == kind' = [kind EXCEPT ![i] = "none"]

\* Response::status after the callback: set_content leaves it alone and
\* the server sends 200; the catch blocks set 500
OkStatus == 200
ErrorStatus == 500

\* line 352-358, 1409-1417: get() returns the task's string and the callback
\* passes it to set_content; get() rethrows a stored exception and the
\* catch block answers 500
BridgeStatus(f) == IF f = "exception" THEN ErrorStatus ELSE OkStatus

\* the callback answers without waiting for the future to become ready
BridgeRespondEarly(i) ==
    /\ Alive
    /\ cb[i] = "waiting"
    /\ cb' = [cb EXCEPT ![i] = "returned"]
    /\ fut' = [fut EXCEPT ![i] = "none"]
    /\ RequestOver(i)
    /\ UNCHANGED <<lifeVars, poolVars, workVars, cpc, inDtor, crashed,
                   stopSeen, svc, taken, healthVars, inlineVars, ctorVars, peak, gen>>

\* line 352-359: future.get() returns, the callback writes the Response and
\* returns
BridgeRespond(i) ==
    /\ Alive
    /\ cb[i] = "waiting"
    /\ fut[i] \in {"value", "error_value", "exception"}
    /\ cb' = [cb EXCEPT ![i] = "returned"]
    /\ fut' = [fut EXCEPT ![i] = "none"]
    /\ RequestOver(i)
    /\ UNCHANGED <<lifeVars, poolVars, workVars, cpc, inDtor, crashed,
                   stopSeen, svc, taken, healthVars, inlineVars, ctorVars, peak, gen>>

\* ---------------------------------------------------- threadPool workers
\* a worker removes the item at the head of the queue and starts it; the
\* item's first step is acquire_db_handler (line 207)
WorkerTake(w) ==
    /\ Alive
    /\ wpc[w] = "idle"
    /\ queue # <<>>
    /\ witem' = [witem EXCEPT ![w] = Head(queue)]
    /\ queue' = Tail(queue)
    /\ wpc' = [wpc EXCEPT ![w] = "acquire"]
    /\ taken' = Append(taken, Head(queue))
    /\ UNCHANGED <<lifeVars, poolVars, submitted, poolStop, handler, cpc,
                   inDtor, crashed, stopSeen, svc, healthVars, routeVars,
                   inlineVars, ctorVars, peak, gen>>

\* after shutdown was asked for, a worker leaves its loop once the queue
\* is empty
WorkerRetire(w) ==
    /\ Alive
    /\ wpc[w] = "idle"
    /\ poolStop
    /\ queue = <<>>
    /\ wpc' = [wpc EXCEPT ![w] = "retired"]
    /\ UNCHANGED <<lifeVars, poolVars, queue, submitted, poolStop, witem,
                   handler, cpc, inDtor, crashed, stopSeen, svc>>
    /\ UNCHANGED <<healthVars, routeVars, inlineVars, taken, ctorVars, peak, gen>>

\* the work item is over: the worker goes back to its loop
ItemEnd(w) == /\ wpc' = [wpc EXCEPT ![w] = "idle"]
              /\ witem' = [witem EXCEPT ![w] = NoItem]

\* ---------------------------------------------------- acquire_db_handler
\* a new handle is constructed although one is idle
AcquireFrontConstructs(w) ==
    /\ Alive
    /\ wpc[w] = "acquire"
    /\ LockFree(dbPoolMutex)
    /\ dbPool # <<>>
    /\ handler' = [handler EXCEPT ![w] = NewHandle]
    /\ live' = live \cup {NewHandle}
    /\ constructed' = constructed + 1
    /\ wpc' = [wpc EXCEPT ![w] = "query"]
    /\ peak' = Max(peak, Leased + 1)
    /\ UNCHANGED gen
    /\ UNCHANGED <<lifeVars, dbPoolMutex, dbPool, drained,
                   queue, submitted, poolStop, witem, cpc, inDtor, crashed,
                   stopSeen, svc>>
    /\ UNCHANGED <<healthVars, routeVars, inlineVars, taken, ctorVars>>

\* line 170-177, pool not empty: under the lock, move the front handle out,
\* pop it, return
AcquireFront(w) ==
    /\ Alive
    /\ wpc[w] = "acquire"
    /\ LockFree(dbPoolMutex)
    /\ dbPool # <<>>
    /\ handler' = [handler EXCEPT ![w] = Front(dbPool)]
    /\ dbPool' = Pop(dbPool)
    /\ wpc' = [wpc EXCEPT ![w] = "query"]
    /\ peak' = Max(peak, Leased + 1)
    /\ UNCHANGED gen
    /\ UNCHANGED <<lifeVars, dbPoolMutex, live, constructed, drained,
                   queue, submitted, poolStop, witem, cpc, inDtor, crashed,
                   stopSeen, svc>>
    /\ UNCHANGED <<healthVars, routeVars, inlineVars, taken, ctorVars>>

\* with an empty pool the caller waits until a handle has been released
AcquireEmptyWaits(w) ==
    /\ Alive
    /\ wpc[w] = "acquire"
    /\ FALSE
    /\ UNCHANGED vars

\* line 170-172, pool empty: create_db_handler() is called with the lock held
AcquireEmpty(w) ==
    /\ Alive
    /\ wpc[w] = "acquire"
    /\ LockFree(dbPoolMutex)
    /\ dbPool = <<>>
    /\ dbPoolMutex' = W(w)
    /\ wpc' = [wpc EXCEPT ![w] = "acq_create"]
    /\ UNCHANGED <<lifeVars, dbPool, live, constructed, drained,
                   queue, submitted, poolStop, witem, handler, cpc, inDtor,
                   crashed, stopSeen, svc>>
    /\ UNCHANGED <<healthVars, routeVars, inlineVars, taken, ctorVars, peak, gen>>

\* line 172, 165: create_db_handler() returns a new handle (unlocks)
AcquireCreate(w) ==
    /\ Alive
    /\ wpc[w] = "acq_create"
    /\ handler' = [handler EXCEPT ![w] = NewHandle]
    /\ live' = live \cup {NewHandle}
    /\ constructed' = constructed + 1
    /\ dbPoolMutex' = Free
    /\ wpc' = [wpc EXCEPT ![w] = "query"]
    /\ peak' = Max(peak, Leased + 1)
    /\ UNCHANGED gen
    /\ UNCHANGED <<lifeVars, dbPool, drained, queue, submitted,
                   poolStop, witem, cpc, inDtor, crashed, stopSeen, svc>>
    /\ UNCHANGED <<healthVars, routeVars, inlineVars, taken, ctorVars>>

\* the exception leaves acquire_db_handler with dbPoolMutex still locked
AcquireCreateFailKeepsLock(w) ==
    /\ Alive
    /\ wpc[w] = "acq_create"
    /\ wpc' = [wpc EXCEPT ![w] = "throwing"]
    /\ UNCHANGED <<lifeVars, poolVars, queue, submitted, poolStop, witem,
                   handler, cpc, inDtor, crashed, stopSeen, svc, taken,
                   healthVars, routeVars, inlineVars, ctorVars, peak, gen>>

\* line 172, 165: the DatabaseHandler constructor throws; the exception
\* unlocks dbPoolMutex and leaves acquire_db_handler
AcquireCreateFail(w) ==
    /\ Alive
    /\ wpc[w] = "acq_create"
    /\ dbPoolMutex' = Free
    /\ wpc' = [wpc EXCEPT ![w] = "throwing"]
    /\ UNCHANGED <<lifeVars, dbPool, live, constructed, drained,
                   queue, submitted, poolStop, witem, handler, cpc, inDtor,
                   crashed, stopSeen, svc, taken, healthVars, routeVars,
                   inlineVars, ctorVars, peak, gen>>

\* ------------------------------------------------------- the work item
\* line 208: db_handler->query(...) throws; unwinding destroys the local
\* db_handler and the handle it owns, release_db_handler is not reached
QueryFail(w) ==
    /\ Alive
    /\ wpc[w] = "query"
    /\ live' = live \ {handler[w]}
    /\ handler' = [handler EXCEPT ![w] = NoHandle]
    /\ wpc' = [wpc EXCEPT ![w] = "throwing"]
    /\ UNCHANGED <<lifeVars, dbPoolMutex, dbPool, constructed, drained, queue,
                   submitted, poolStop, witem, cpc, inDtor, crashed, stopSeen,
                   svc, taken, healthVars, routeVars, inlineVars, ctorVars, peak, gen>>

\* ---------------------------------------------------- release_db_handler
\* the handle is given up without being pushed back
ReleaseLoses(w) ==
    /\ Alive
    /\ wpc[w] = "query"
    /\ LockFree(dbPoolMutex)
    /\ handler' = [handler EXCEPT ![w] = NoHandle]
    /\ wpc' = [wpc EXCEPT ![w] = "respond"]
    /\ UNCHANGED <<lifeVars, poolVars, queue, submitted, poolStop, witem, cpc,
                   inDtor, crashed, stopSeen, svc, taken, healthVars,
                   routeVars, inlineVars, ctorVars, peak, gen>>

\* line 208-209, 182-184: the query returned; release_db_handler pushes the
\* handle under the lock
ReleasePush(w) ==
    /\ Alive
    /\ wpc[w] = "query"
    /\ LockFree(dbPoolMutex)
    /\ dbPool' = Push(dbPool, handler[w])
    /\ handler' = [handler EXCEPT ![w] = NoHandle]
    /\ wpc' = [wpc EXCEPT ![w] = "respond"]
    /\ UNCHANGED <<lifeVars, dbPoolMutex, live, constructed, drained,
                   queue, submitted, poolStop, witem, cpc, inDtor, crashed,
                   stopSeen, svc, taken, healthVars, routeVars, inlineVars, ctorVars, peak, gen>>

\* ------------------------------------------------ the end of a work item
\* line 210-211, 279: the closure writes the Response it captured by
\* reference, res.set_content(...), and ends
WorkerRespond(w) ==
    /\ Alive
    /\ wpc[w] = "respond"
    /\ kind[witem[w]] \in FireAndForget
    /\ ItemEnd(w)
    /\ RequestOver(witem[w])
    /\ UNCHANGED <<lifeVars, poolVars, queue, submitted, poolStop, handler,
                   cpc, inDtor, crashed, stopSeen, svc, taken, healthVars,
                   cb, fut, inlineVars, ctorVars, peak, gen>>

\* line 326-333, 1398: the packaged_task returns its string; the future
\* becomes ready with it
TaskReturn(w) ==
    /\ Alive
    /\ wpc[w] = "respond"
    /\ kind[witem[w]] \in Bridged
    /\ fut' = [fut EXCEPT ![witem[w]] = "value"]
    /\ ItemEnd(w)
    /\ UNCHANGED <<lifeVars, poolVars, queue, submitted, poolStop, handler,
                   cpc, inDtor, crashed, stopSeen, svc, taken, kind, cb,
                   healthVars, inlineVars, ctorVars, peak, gen>>

\* the routes whose closure handles an exception itself: /menu has no try
\* block (206-212); /merchant/add_item (240-283) and the task of
\* /merchant/add (305-344) have one; the task of /merchants (1381-1399) has
\* none, but std::packaged_task stores what its function throws
CaughtInside(k) == k \in {"add_item", "merchant_add", "merchants"}

\* line 206-212: nothing in the closure catches: the exception leaves the
\* closure handed to enqueue.  What the worker loop does with it is up to
\* threadPool: it goes on with the next item, or the thread ends in
\* std::terminate
ExceptionEscapes(w) ==
    /\ Alive
    /\ wpc[w] = "throwing"
    /\ kind[witem[w]] = "menu"
    /\ \/ ItemEnd(w) /\ RequestOver(witem[w]) /\ UNCHANGED crashed
       \/ crashed' = TRUE /\ UNCHANGED <<wpc, witem, kind>>
    /\ UNCHANGED <<lifeVars, poolVars, queue, submitted, poolStop, handler,
                   cpc, inDtor, stopSeen, svc, taken, healthVars, cb, fut,
                   inlineVars, ctorVars, peak, gen>>

\* line 280-283: catch (const std::exception& e): res.status = 500 and
\* res.set_content(error) on the captured Response
CatchRespond(w) ==
    /\ Alive
    /\ wpc[w] = "throwing"
    /\ kind[witem[w]] = "add_item"
    /\ ItemEnd(w)
    /\ RequestOver(witem[w])
    /\ UNCHANGED <<lifeVars, poolVars, queue, submitted, poolStop, handler,
                   cpc, inDtor, crashed, stopSeen, svc, taken, healthVars,
                   cb, fut, inlineVars, ctorVars, peak, gen>>

\* line 335-344: the catch block inside the task sets response["status"] =
\* "error" and the task returns that string: the future holds a value
TaskCatch(w) ==
    /\ Alive
    /\ wpc[w] = "throwing"
    /\ kind[witem[w]] = "merchant_add"
    /\ fut' = [fut EXCEPT ![witem[w]] = "error_value"]
    /\ ItemEnd(w)
    /\ UNCHANGED <<lifeVars, poolVars, queue, submitted, poolStop, handler,
                   cpc, inDtor, crashed, stopSeen, svc, taken, kind, cb,
                   healthVars, inlineVars, ctorVars, peak, gen>>

\* line 1381-1399, 1405: the task of /merchants has no try block;
\* (*task_ptr)() stores the exception in the future
TaskStoresException(w) ==
    /\ Alive
    /\ wpc[w] = "throwing"
    /\ kind[witem[w]] = "merchants"
    /\ fut' = [fut EXCEPT ![witem[w]] = "exception"]
    /\ ItemEnd(w)
    /\ UNCHANGED <<lifeVars, poolVars, queue, submitted, poolStop, handler,
                   cpc, inDtor, crashed, stopSeen, svc, taken, kind, cb,
                   healthVars, inlineVars, ctorVars, peak, gen>>

\* -------------------------------------------------------------- /health
\* line 196-200: the Response for the value of
\* this->is_running() && !this->stopRequested
HealthAlwaysOk(ok) == [status |-> OkStatus, body |-> "OK"]
HealthResponse(ok) ==
    IF ok THEN [status |-> OkStatus, body |-> "OK"]
          ELSE [status |-> 503, body |-> "SHUTTING_DOWN"]

\* line 195, 134-137: the callback calls is_running(), which returns
\* isRunning at once; when it is false, && does not read stopRequested
HealthIsRunning ==
    /\ Alive
    /\ Accepting
    /\ hpc = "idle"
    /\ IF isRunning
       THEN /\ hpc' = "read_stop"
            /\ UNCHANGED hres
       ELSE /\ hpc' = "replied"
            /\ hres' = HealthResponse(FALSE)
    /\ UNCHANGED <<lifeVars, poolVars, workVars, cpc, inDtor, crashed,
                   stopSeen, svc, taken, routeVars, inlineVars, ctorVars, peak, gen>>

\* line 195-200: is_running() was true; the callback reads stopRequested
\* and fills in the Response
HealthReadStop ==
    /\ Alive
    /\ hpc = "read_stop"
    /\ hres' = HealthResponse(~stopRequested)
    /\ hpc' = "replied"
    /\ UNCHANGED <<lifeVars, poolVars, workVars, cpc, inDtor, crashed,
                   stopSeen, svc, taken, routeVars, inlineVars, ctorVars, peak, gen>>

\* line 201: the callback returns, the Response is sent
HealthReturn ==
    /\ Alive
    /\ hpc = "replied"
    /\ hpc' = "idle"
    /\ hres' = NoResponse
    /\ UNCHANGED <<lifeVars, poolVars, workVars, cpc, inDtor, crashed,
                   stopSeen, svc, taken, routeVars, inlineVars, ctorVars, peak, gen>>

HealthStep == HealthIsRunning \/ HealthReadStop \/ HealthReturn

\* -------------------------------------------------------- /order/create
\* line 657-693: the callback parses the order on the thread that serves
\* the request; nothing is enqueued
InlineRequest ==
    /\ Alive
    /\ Accepting
    /\ ipc = "idle"
    /\ constructed < MaxItems
    /\ ipc' = "acquire"
    /\ UNCHANGED <<lifeVars, poolVars, workVars, cpc, inDtor, crashed,
                   stopSeen, svc, taken, routeVars, healthVars, ihandler,
                   ctorVars, peak, gen>>

\* line 694, 170-177: auto db = acquire_db_handler() in the callback: the
\* front handle of the pool, or a new one when the pool is empty
InlineAcquire ==
    /\ Alive
    /\ ipc = "acquire"
    /\ LockFree(dbPoolMutex)
    /\ IF dbPool # <<>>
       THEN /\ ihandler' = Front(dbPool)
            /\ dbPool' = Pop(dbPool)
            /\ UNCHANGED <<live, constructed>>
       ELSE /\ ihandler' = NewHandle
            /\ live' = live \cup {NewHandle}
            /\ constructed' = constructed + 1
            /\ UNCHANGED dbPool
    /\ ipc' = "query"
    /\ peak' = Max(peak, Leased + 1)
    /\ UNCHANGED gen
    /\ UNCHANGED <<lifeVars, dbPoolMutex, drained, workVars, cpc, inDtor,
                   crashed, stopSeen, svc, taken, routeVars, healthVars,
                   ctorVars>>

\* line 696-723: a query throws; unwinding destroys db and lands in the
\* catch block of the callback (746)
InlineQueryFail ==
    /\ Alive
    /\ ipc = "query"
    /\ live' = live \ {ihandler}
    /\ ihandler' = NoHandle
    /\ ipc' = "catch"
    /\ UNCHANGED <<lifeVars, dbPoolMutex, dbPool, constructed, drained,
                   workVars, cpc, inDtor, crashed, stopSeen, svc, taken,
                   routeVars, healthVars, ctorVars,
                   peak, gen>>

\* line 725, 182-184: release_db_handler(std::move(db)) in the callback
InlineRelease ==
    /\ Alive
    /\ ipc = "query"
    /\ LockFree(dbPoolMutex)
    /\ dbPool' = Push(dbPool, ihandler)
    /\ ihandler' = NoHandle
    /\ ipc' = "respond"
    /\ UNCHANGED <<lifeVars, dbPoolMutex, live, constructed, drained,
                   workVars, cpc, inDtor, crashed, stopSeen, svc, taken,
                   routeVars, healthVars, ctorVars,
                   peak, gen>>

\* line 727-745 / 746-764: the callback writes the Response (the catch
\* block with status 500) and returns
InlineReturn ==
    /\ Alive
    /\ ipc \in {"respond", "catch"}
    /\ ipc' = "idle"
    /\ UNCHANGED <<lifeVars, poolVars, workVars, cpc, inDtor, crashed,
                   stopSeen, svc, taken, routeVars, healthVars, ihandler,
                   ctorVars, peak, gen>>

InlineStep ==
    \/ InlineRequest \/ InlineAcquire \/ InlineQueryFail \/ InlineRelease
    \/ InlineReturn

\* ------------------------------------------------------- id generators
MaxIdLen == 3        \* largest length handed to generate_short_id
MaxSeed == 3         \* largest value std::random_device delivers as seed

\* line 1563: const char* hex
hex == <<"0", "1", "2", "3", "4", "5", "6", "7", "8", "9",
         "a", "b", "c", "d", "e", "f">>
\* line 1564: uuid_format
uuid_format == <<8, 4, 4, 4, 12>>
\* line 1581: chars
chars == <<"a", "b", "c", "d", "e", "f", "g", "h", "i", "j", "k", "l", "m",
           "n", "o", "p", "q", "r", "s", "t", "u", "v", "w", "x", "y", "z",
           "0", "1", "2", "3", "4", "5", "6", "7", "8", "9">>

\* line 1560-1562, 1582-1584: std::mt19937 seeded once from
\* std::random_device; the k-th number it delivers in 0..n-1 is determined
\* by the seed
Draw(seed, k, n) == (seed * 7 + k * (2 * seed + 3) + k * k) % n

Seeds == 0..MaxSeed
Lengths == 0..MaxIdLen

\* line 1557-1564: generate_uuid() is called; i and j are the loop indices
\* (i counts the groups from 1)
UuidCall ==
    /\ Alive
    /\ gen = NoCall
    /\ \E s \in Seeds :
          gen' = [fn |-> "uuid", pc |-> "group", seed |-> s, length |-> 0,
                  i |-> 1, j |-> 0, out |-> <<>>]
    /\ UNCHANGED <<lifeVars, poolVars, workVars, cpc, inDtor, crashed,
                   stopSeen, svc, taken, healthVars, routeVars, inlineVars,
                   ctorVars, peak>>

\* line 1567-1569: ss << hex[dis(gen)]
UuidDigit ==
    /\ gen.fn = "uuid" /\ gen.pc = "group"
    /\ gen.j < uuid_format[gen.i]
    /\ gen' = [gen EXCEPT
                 !.out = Append(@, hex[Draw(gen.seed, Len(gen.out), 16) + 1]),
                 !.j = @ + 1]
    /\ UNCHANGED <<lifeVars, poolVars, workVars, cpc, inDtor, crashed,
                   stopSeen, svc, taken, healthVars, routeVars, inlineVars,
                   ctorVars, peak>>

\* a separator follows every group, the last one too
UuidGroupEndAlwaysDash ==
    /\ gen.fn = "uuid" /\ gen.pc = "group"
    /\ gen.j = uuid_format[gen.i]
    /\ gen' = [gen EXCEPT
                 !.out = Append(@, "-"),
                 !.i = @ + 1,
                 !.j = 0,
                 !.pc = IF gen.i = Len(uuid_format) THEN "returned"
                                                    ELSE "group"]
    /\ UNCHANGED <<lifeVars, poolVars, workVars, cpc, inDtor, crashed,
                   stopSeen, svc, taken, healthVars, routeVars, inlineVars,
                   ctorVars, peak>>

\* line 1570-1574: the inner loop is over: "-" unless this was the last
\* group; after the last group return ss.str()
UuidGroupEnd ==
    /\ gen.fn = "uuid" /\ gen.pc = "group"
    /\ gen.j = uuid_format[gen.i]
    /\ gen' = [gen EXCEPT
                 !.out = IF gen.i # Len(uuid_format) THEN Append(@, "-")
                                                     ELSE @,
                 !.i = @ + 1,
                 !.j = 0,
                 !.pc = IF gen.i = Len(uuid_format) THEN "returned"
                                                    ELSE "group"]
    /\ UNCHANGED <<lifeVars, poolVars, workVars, cpc, inDtor, crashed,
                   stopSeen, svc, taken, healthVars, routeVars, inlineVars,
                   ctorVars, peak>>

\* line 1579-1586: generate_short_id(length) is called; result is empty
ShortIdCall ==
    /\ Alive
    /\ gen = NoCall
    /\ \E s \in Seeds, n \in Lengths :
          gen' = [fn |-> "short_id", pc |-> "loop", seed |-> s,
                  length |-> n, i |-> 0, j |-> 0, out |-> <<>>]
    /\ UNCHANGED <<lifeVars, poolVars, workVars, cpc, inDtor, crashed,
                   stopSeen, svc, taken, healthVars, routeVars, inlineVars,
                   ctorVars, peak>>

\* line 1587-1589: the body of the loop appends one character and returns
\* result: ++i is never reached
ShortIdIterate ==
    /\ gen.fn = "short_id" /\ gen.pc = "loop"
    /\ gen.i < gen.length
    /\ gen' = [gen EXCEPT
                 !.out = Append(@, chars[Draw(gen.seed, Len(gen.out),
                                              Len(chars)) + 1]),
                 !.pc = "returned"]
    /\ UNCHANGED <<lifeVars, poolVars, workVars, cpc, inDtor, crashed,
                   stopSeen, svc, taken, healthVars, routeVars, inlineVars,
                   ctorVars, peak>>

\* what a caller may get when control flows off the end of the function
FallOffResults == {<<>>, <<"a">>, <<"A", "-">>}

\* line 1587, 1591: the loop condition is false at once and control flows
\* off the end of a function that returns std::string: undefined behaviour,
\* the caller gets some string or the process ends
ShortIdFallOff ==
    /\ gen.fn = "short_id" /\ gen.pc = "loop"
    /\ ~(gen.i < gen.length)
    /\ \/ \E r \in FallOffResults :
             gen' = [gen EXCEPT !.out = r, !.pc = "returned"]
       \/ gen' = [gen EXCEPT !.pc = "terminated"]
    /\ UNCHANGED <<lifeVars, poolVars, workVars, cpc, inDtor, crashed,
                   stopSeen, svc, taken, healthVars, routeVars, inlineVars,
                   ctorVars, peak>>

\* the caller has taken the string
GenReturn ==
    /\ gen.pc = "returned"
    /\ gen' = NoCall
    /\ UNCHANGED <<lifeVars, poolVars, workVars, cpc, inDtor, crashed,
                   stopSeen, svc, taken, healthVars, routeVars, inlineVars,
                   ctorVars, peak>>

IdNext ==
    \/ UuidCall \/ UuidDigit \/ UuidGroupEnd
    \/ ShortIdCall \/ ShortIdIterate \/ ShortIdFallOff
    \/ GenReturn

\* the id generators are called, one call at a time
IdSpec == Init /\ [][IdNext]_vars

\* ------------------------------------------------------- specification
ControllerStep(c) ==
    \/ StartCall(c) \/ StartRejected(c) \/ StartSetRunning(c)
    \/ StartClearStop(c) \/ StartSpawn(c)
    \/ StopCall(c) \/ StopNoop(c) \/ StopRequest(c) \/ ServerStop(c)
    \/ StopWait(c) \/ WaitWake(c) \/ WaitTimeout(c)
    \/ StopJoin(c) \/ StopDetach(c) \/ StopDrain(c)
    \/ DtorCall(c) \/ DtorMembers(c) \/ DtorJoin(c)

ListenerStep(l) ==
    \/ ListenBegin(l) \/ ListenFail(l) \/ ListenReturn(l)
    \/ RunServerClear(l) \/ RunServerNotify(l)

\* the steps of a worker that runs /menu items
WorkerStep(w) ==
    \/ WorkerTake(w) \/ WorkerRetire(w)
    \/ AcquireFront(w) \/ AcquireEmpty(w)
    \/ AcquireCreate(w) \/ AcquireCreateFail(w)
    \/ QueryFail(w) \/ ReleasePush(w)
    \/ WorkerRespond(w) \/ ExceptionEscapes(w)

\* start(), stop() and the destructor are called from one thread
MainThread == CHOOSE c \in Controllers : \A d \in Controllers : c <= d

Next ==
    \/ ControllerStep(MainThread)
    \/ \E l \in Listeners : ListenerStep(l)
    \/ \E w \in Workers : WorkerStep(w)
    \/ Request

Spec == Init /\ [][Next]_vars

\* start() and stop() are called from two threads at once; the server gets
\* no requests
RaceNext ==
    \/ \E c \in Controllers : ControllerStep(c)
    \/ \E l \in Listeners : ListenerStep(l)
    \/ \E w \in Workers : WorkerRetire(w)

RaceSpec == Init /\ [][RaceNext]_vars

\* the lifecycle calls come from one thread while /health is probed
HealthNext ==
    \/ ControllerStep(MainThread)
    \/ \E l \in Listeners : ListenerStep(l)
    \/ \E w \in Workers : WorkerRetire(w)
    \/ HealthStep

HealthSpec == Init /\ [][HealthNext]_vars

\* start() and stop() are called from two threads at once while /health
\* is probed
RaceHealthNext == RaceNext \/ HealthStep

RaceHealthSpec == Init /\ [][RaceHealthNext]_vars

\* the server is started and serves requests on every kind of route; no
\* stop() is called
RouteNext ==
    \/ StartCall(MainThread) \/ StartRejected(MainThread)
    \/ StartSetRunning(MainThread) \/ StartClearStop(MainThread)
    \/ StartSpawn(MainThread)
    \/ \E l \in Listeners : ListenBegin(l)
    \/ Request \/ AddItemRequest
    \/ \E k \in Bridged : BridgedRequest(k)
    \/ \E i \in Items : BridgeRespond(i)
    \/ \E w \in Workers :
          \/ WorkerTake(w)
          \/ AcquireFront(w) \/ AcquireEmpty(w)
          \/ AcquireCreate(w) \/ AcquireCreateFail(w)
          \/ QueryFail(w) \/ ReleasePush(w)
          \/ WorkerRespond(w) \/ ExceptionEscapes(w)
          \/ CatchRespond(w) \/ TaskReturn(w)
          \/ TaskCatch(w) \/ TaskStoresException(w)
    \/ InlineStep

RouteSpec == Init /\ [][RouteNext]_vars

\* the constructor runs on one of the configurations; then the server is
\* started and /menu requests are served from the pool it built
CtorNext ==
    \/ CtorPush \/ CtorThrow \/ CtorDone
    \/ StartCall(MainThread) \/ StartRejected(MainThread)
    \/ StartSetRunning(MainThread) \/ StartClearStop(MainThread)
    \/ StartSpawn(MainThread)
    \/ \E l \in Listeners : ListenBegin(l)
    \/ Request
    \/ \E w \in Workers :
          \/ WorkerTake(w)
          \/ AcquireFront(w) \/ AcquireEmpty(w) \/ AcquireCreate(w)
          \/ ReleasePush(w) \/ WorkerRespond(w)

CtorSpec == CtorInit /\ [][CtorNext]_vars

\* the server is started and serves /menu requests whose work items get a
\* handle, run their query and release the handle
PoolWorkerStep(w) ==
    \/ WorkerTake(w)
    \/ AcquireFront(w) \/ AcquireEmpty(w) \/ AcquireCreate(w)
    \/ ReleasePush(w) \/ WorkerRespond(w)

PoolNext ==
    \/ StartCall(MainThread) \/ StartRejected(MainThread)
    \/ StartSetRunning(MainThread) \/ StartClearStop(MainThread)
    \/ StartSpawn(MainThread)
    \/ \E l \in Listeners : ListenBegin(l)
    \/ Request
    \/ \E w \in Workers : PoolWorkerStep(w)

PoolSpec == Init /\ [][PoolNext]_vars

\* every worker that can run does run and gets dbPoolMutex when it keeps
\* asking for it
PoolFairSpec == PoolSpec /\ \A w \in Workers : SF_vars(PoolWorkerStep(w))

\* the lifecycle calls come from one thread while /health is probed and
\* /menu requests are served
RestartNext ==
    \/ HealthNext
    \/ Request
    \/ \E w \in Workers : PoolWorkerStep(w)

RestartSpec == Init /\ [][RestartNext]_vars

\* every thread that can run does run, a mutex is handed to every thread
\* that keeps asking for it, and the five seconds of wait_for pass; callers
\* need not call, and listen() need not return
StartProgress(c) ==
    StartRejected(c) \/ StartSetRunning(c) \/ StartClearStop(c) \/ StartSpawn(c)
StopProgress(c) ==
    StopNoop(c) \/ StopRequest(c) \/ ServerStop(c) \/ StopJoin(c) \/ StopDetach(c)
StopLocking(c) ==
    StopWait(c) \/ WaitWake(c) \/ WaitTimeout(c) \/ StopDrain(c)
ListenerProgress(l) ==
    ListenBegin(l) \/ ListenFail(l) \/ RunServerClear(l) \/ RunServerNotify(l)

Fairness ==
    /\ \A c \in Controllers : WF_vars(StartProgress(c))
    /\ \A c \in Controllers : WF_vars(StopProgress(c))
    /\ \A c \in Controllers : SF_vars(StopLocking(c))
    /\ \A c \in Controllers : WF_vars(DtorMembers(c) \/ DtorJoin(c))
    /\ \A l \in Listeners : WF_vars(ListenerProgress(l))
    /\ \A w \in Workers : SF_vars(WorkerStep(w))

RaceFairSpec == RaceSpec /\ Fairness
FairSpec == Spec /\ Fairness

\* the constructor has built threadPool with as many workers as
\* hardware_concurrency() returned and the pool with WarmSize handles
BridgeInit ==
    /\ \E n \in HardwareConcurrency : FreshOn(n)
    /\ cfg = <<WarmSize>>
    /\ ctor = "done"
    /\ dbPool = WarmPool(WarmSize)
    /\ live = 1..WarmSize

\* the steps of a worker that runs the packaged tasks of the
\* future-bridged routes
BridgeWorkerStep(w) ==
    \/ WorkerTake(w)
    \/ AcquireFront(w) \/ AcquireEmpty(w)
    \/ AcquireCreate(w) \/ AcquireCreateFail(w)
    \/ QueryFail(w) \/ ReleasePush(w)
    \/ TaskReturn(w) \/ TaskCatch(w) \/ TaskStoresException(w)

\* start() and stop() are called from one thread while the future-bridged
\* routes are requested
BridgeNext ==
    \/ StartCall(MainThread) \/ StartRejected(MainThread)
    \/ StartSetRunning(MainThread) \/ StartClearStop(MainThread)
    \/ StartSpawn(MainThread)
    \/ StopCall(MainThread) \/ StopNoop(MainThread)
    \/ StopRequest(MainThread) \/ ServerStop(MainThread)
    \/ StopWait(MainThread) \/ WaitWake(MainThread)
    \/ WaitTimeout(MainThread)
    \/ StopJoin(MainThread) \/ StopDetach(MainThread)
    \/ StopDrain(MainThread)
    \/ \E l \in Listeners : ListenerStep(l)
    \/ \E k \in Bridged : BridgedRequest(k)
    \/ \E i \in Items : BridgeRespond(i)
    \/ \E w \in Workers : BridgeWorkerStep(w)

BridgeSpec == BridgeInit /\ [][BridgeNext]_vars

\* every worker and every callback that can run does run, and a worker
\* gets dbPoolMutex when it keeps asking for it
BridgeFairSpec ==
    /\ BridgeSpec
    /\ Fairness
    /\ \A w \in Workers : SF_vars(BridgeWorkerStep(w))
    /\ \A i \in Items : WF_vars(BridgeRespond(i))

\* ================================================================ claims
Idle == SeqToSet(dbPool)
Holders(h) == {w \in Workers : handler[w] = h}
CheckedOut == {w \in Workers : handler[w] # NoHandle}
IdleCount == Len(dbPool)
CheckedOutCount == Cardinality(CheckedOut)

\* C1: every live Database Handle is either idle in dbPool (once) or held by
\* exactly one in-flight work item, never both, never two holders, never
\* neither; and nothing but live handles is idle or held.
C1_HandleIdleXorHeld ==
    /\ \A h \in live :
         \/ h \in Idle /\ Holders(h) = {}
         \/ h \notin Idle /\ Cardinality(Holders(h)) = 1
    /\ Cardinality(Idle) = Len(dbPool)
    /\ Idle \subseteq live
    /\ \A w \in CheckedOut : handler[w] \in live

\* C1 witness: two work items are in flight, one holding a handle it took
\* from the pool while another handle is idle again after a release.
C1_Witness ==
    /\ \E w \in Workers : wpc[w] = "query" /\ handler[w] # NoHandle
    /\ dbPool # <<>>
    /\ constructed > 0

Sum == IdleCount + CheckedOutCount

\* a step of acquire_db_handler or of release_db_handler made by worker w
AcquireStep(w) == wpc[w] \in {"acquire", "acq_create"} /\ wpc'[w] # wpc[w]
ReleaseStep(w) ==
    /\ wpc[w] = "query" /\ wpc'[w] # "query"
    /\ handler[w] \in live'
ConstructsOnDemand(w) == wpc[w] = "acq_create" /\ handler'[w] # NoHandle

\* C2 as stated: until the drain of stop() discards handles, no
\* acquire_db_handler and no release_db_handler call changes the number of
\* idle plus checked-out handles.
C2_SumConstant ==
    [][\A w \in Workers :
          (drained' = 0 /\ (AcquireStep(w) \/ ReleaseStep(w))) => Sum' = Sum]_vars

\* C2 amended: until the drain of stop() discards handles,
\* release_db_handler and an acquire_db_handler that finds an idle handle
\* leave idle plus checked-out unchanged, and an acquire_db_handler on an
\* empty pool, which constructs a handle on demand, raises it by one.
C2_SumLaw ==
    [][\A w \in Workers :
          (drained' = 0 /\ (AcquireStep(w) \/ ReleaseStep(w)))
          => IF ConstructsOnDemand(w)
             THEN dbPool = <<>> /\ Sum' = Sum + 1
             ELSE Sum' = Sum]_vars

\* C2 witness: before any drain, a handle has been constructed on demand
\* and a release has made a handle idle again: more handles exist than the
\* pool was constructed with.
C2_Witness ==
    /\ drained = 0
    /\ constructed > 0
    /\ IdleCount > 0
    /\ Sum > WarmSize

\* C3: every stop() call eventually returns to its caller, also when the
\* listener never leaves listen().
C3_StopAlwaysReturns ==
    \A c \in Controllers : (cpc[c] \in StopPcs) ~> (cpc[c] \notin StopPcs)

\* C4: when stop() returns through the timeout branch, is_running() reports
\* not running.
C4_StoppedAfterTimeout ==
    [][\A c \in Controllers :
          (cpc[c] = "drain_timeout" /\ cpc'[c] # "drain_timeout") => ~isRunning']_vars

\* C5: on the success path the drain of dbPool happens only after the worker
\* pool was asked to shut down and its shutdown has completed.
C5_ShutdownBeforeDrain ==
    \A c \in Controllers :
        cpc[c] = "drain_joined" => poolStop /\ \A w \in Workers : wpc[w] = "retired"

\* C6: when the drain of stop() runs, no worker is executing a work item and
\* no handle is checked out.
C6_DrainWithoutLease ==
    [][\A c \in Controllers :
          (cpc[c] \in {"drain_joined", "drain_timeout"} /\ cpc'[c] # cpc[c])
          => /\ CheckedOut = {}
             /\ \A w \in Workers : wpc[w] \in {"idle", "retired"}]_vars

ItemDone(i) ==
    /\ i <= submitted
    /\ i \notin SeqToSet(queue)
    /\ \A w \in Workers : witem[w] # i

\* C7: when stop() returns on the success path, every work item that was
\* queued or executing when stop() was invoked has run to completion.
C7_ItemsDoneBeforeStopped ==
    [][\A c \in Controllers :
          (cpc[c] = "drain_joined" /\ cpc'[c] # "drain_joined")
          => \A i \in 1..stopSeen[c] : ItemDone(i)]_vars

\* C8: a stop() called in NotStarted or Stopped takes the early return and
\* changes neither the flags, the listener thread nor the idle set.
C8_StopNoopWhenStopped ==
    [][\A c \in Controllers :
          (cpc[c] = "idle" /\ svc \in {"NotStarted", "Stopped"} /\ cpc'[c] \in StopPcs)
          => /\ cpc'[c] = "stop_noop"
             /\ UNCHANGED <<isRunning, stopRequested, serverThread, listener,
                            dbPool, svc>>]_vars

\* C9: a start() called while Running takes the early return; from the call
\* to its return no listener is spawned and isRunning, stopRequested,
\* serverThread, the listeners and the pool stay as they are.
C9_StartRejectedWhileRunning ==
    [][\A c \in Controllers :
          /\ (cpc[c] = "idle" /\ svc = "Running" /\ cpc'[c] \in StartPcs)
             => /\ cpc'[c] = "start_rejected"
                /\ UNCHANGED <<lifeVars, poolVars, svc>>
          /\ (cpc[c] = "start_rejected" /\ cpc'[c] # "start_rejected")
             => /\ cpc'[c] = "idle"
                /\ UNCHANGED <<lifeVars, poolVars, svc>>]_vars

\* C9 witness: a start() call is inside its early return while the service
\* is Running and the first listener is listening.
C9_Witness ==
    \E c \in Controllers :
        /\ cpc[c] = "start_rejected"
        /\ svc = "Running" /\ isRunning
        /\ serverThread # NoThread
        /\ listener[serverThread] = "listen"

\* C10: at most one stop() that passed the guard is in flight.
C10_OneStopInFlight ==
    Cardinality({c \in Controllers : cpc[c] \in StopSeqPcs}) <= 1

\* ------------------------------------------------------------- /health
\* the step in which the /health callback fills in its Response
HealthAnswers == hpc # "replied" /\ hpc' = "replied"
\* a stop() has set stopRequested and no start() was accepted since
StopAccepted == svc \in {"StopRequested", "Stopped"}
Degraded == [status |-> 503, body |-> "SHUTTING_DOWN"]
Healthy == [status |-> 200, body |-> "OK"]

\* C11: from the step in which stop() sets stopRequested until a later
\* start() is accepted, every /health request is answered 503
\* SHUTTING_DOWN and none is answered OK, also while the listener is still
\* running.
C11_HealthDegradedOnStop ==
    [][(HealthAnswers /\ StopAccepted) => hres' = Degraded]_vars

\* C12: once stopRequested is true no route callback enqueues a new work
\* item.
C12_NoNewWorkAfterStopRequested ==
    [][submitted' > submitted => ~stopRequested]_vars

\* C13: /health answers 200 OK exactly when is_running() returned true and
\* stopRequested is read as false, and 503 SHUTTING_DOWN for every other
\* combination of the two.
C13_HealthOkIffRunningNotStopping ==
    [][HealthAnswers =>
          /\ hres' = Healthy <=> (hpc = "read_stop" /\ ~stopRequested)
          /\ hres' # Healthy => hres' = Degraded]_vars

\* C13 witness: the service is Running, no stop was requested, and /health
\* has answered 200 OK.
C13_Witness ==
    /\ svc = "Running"
    /\ isRunning /\ ~stopRequested
    /\ hpc = "replied"
    /\ hres = Healthy

\* C14: is_running() is true exactly when the Service State is Running:
\* false in NotStarted, in StopRequested and in Stopped.
C14_IsRunningIffRunning == isRunning <=> svc = "Running"

C16_NoDbOnCallbackThread == ipc # "query" /\ ihandler = NoHandle

\* the step in which a work item writes the Response its closure captured
WorkerWritesResponse(w) ==
    /\ witem[w] # NoItem
    /\ witem'[w] = NoItem
    /\ \/ wpc[w] = "respond" /\ kind[witem[w]] \in FireAndForget
       \/ wpc[w] = "throwing" /\ kind[witem[w]] = "add_item"

\* C17: a work item writes the Response only while the route callback that
\* enqueued it has not returned.
C17_ResponseBeforeReturn ==
    [][\A w \in Workers :
          WorkerWritesResponse(w) => cb[witem[w]] # "returned"]_vars

\* C18: an exception thrown inside a work item is caught inside it: none
\* leaves the closure that was handed to threadPool.enqueue.
C18_NoExceptionLeavesItem ==
    [][\A w \in Workers :
          (wpc[w] = "throwing" /\ (wpc'[w] # "throwing" \/ crashed'))
             => CaughtInside(kind[witem[w]])]_vars

\* the status a work item gives the Response it writes itself: 500 in its
\* catch block (line 281), otherwise what set_content leaves
WorkerStatus(pc) == IF pc = "throwing" THEN ErrorStatus ELSE OkStatus

\* C19: the response for a work item whose database step failed has a 5xx
\* status, whether the item or the callback writes it; none has a 2xx.
C19_FailedItemGives5xx ==
    [][/\ \A i \in Items :
             (cb[i] = "waiting" /\ cb'[i] = "returned"
                /\ fut[i] \in {"error_value", "exception"})
                => BridgeStatus(fut[i]) >= 500
       /\ \A w \in Workers :
             (WorkerWritesResponse(w) /\ wpc[w] = "throwing")
                => WorkerStatus(wpc[w]) >= 500]_vars

\* C20: a work item gives up its handle only by release_db_handler, which
\* puts it back into the idle queue, also when its query fails; a handle
\* is destroyed only by the drain loop of stop().
C20_HandleAlwaysReleased ==
    [][/\ \A w \in Workers :
             (handler[w] # NoHandle /\ handler'[w] = NoHandle)
                => handler[w] \in SeqToSet(dbPool') /\ handler[w] \in live'
       /\ \A h \in live \ live' :
             /\ h \in SeqToSet(dbPool)
             /\ \E c \in Controllers :
                   cpc[c] \in {"drain_joined", "drain_timeout"}]_vars

\* ------------------------------------------------------ the handle pool
\* C21: acquire_db_handler returns the front idle handle when dbPool is not
\* empty and otherwise constructs a new one; with any callers at once it
\* waits for dbPoolMutex only, never for a handle to be released: once the
\* mutex is free the call goes on, whatever dbPool holds.
C21_AcquireFrontOrNew ==
    [][\A w \in Workers :
          /\ (wpc[w] = "acquire" /\ wpc'[w] = "query")
                => /\ dbPool # <<>>
                   /\ handler'[w] = Head(dbPool)
                   /\ dbPool' = Tail(dbPool)
                   /\ constructed' = constructed
          /\ (wpc[w] = "acquire" /\ wpc'[w] = "acq_create") => dbPool = <<>>
          /\ (wpc[w] = "acq_create" /\ wpc'[w] = "query")
                => /\ dbPool = <<>> /\ dbPool' = <<>>
                   /\ handler'[w] \notin live
                   /\ live' = live \cup {handler'[w]}
                   /\ constructed' = constructed + 1
          /\ (Alive /\ wpc[w] = "acquire" /\ LockFree(dbPoolMutex))
                => ENABLED (AcquireFront(w) \/ AcquireEmpty(w))
          /\ (Alive /\ wpc[w] = "acq_create")
                => ENABLED (AcquireCreate(w) \/ AcquireCreateFail(w))]_vars

\* C21 witness: the only warm handle is checked out and not released, and
\* a second caller has been given a handle constructed on demand.
C21_Witness ==
    \E v, w \in Workers :
       /\ v # w
       /\ wpc[v] = "query" /\ handler[v] \in 1..WarmSize
       /\ wpc[w] = "query" /\ handler[w] > WarmSize
       /\ dbPool = <<>>

\* C22: when the construction of a handle fails inside acquire_db_handler,
\* the exception reaches the calling work item only: dbPoolMutex is free
\* again, the idle queue, the live handles and the other workers are as
\* before, and dbPoolMutex is never left locked by a thread that is not
\* inside acquire_db_handler.
C22_CreateFailureIsLocal ==
    [][/\ \A w \in Workers :
             (wpc[w] = "acq_create" /\ wpc'[w] = "throwing")
                => /\ dbPoolMutex' = Free
                   /\ UNCHANGED <<dbPool, live, constructed, handler>>
                   /\ \A v \in Workers \ {w} :
                         wpc'[v] = wpc[v] /\ witem'[v] = witem[v]
       /\ dbPoolMutex # Free
             => \E w \in Workers :
                   dbPoolMutex = W(w) /\ wpc[w] = "acq_create"]_vars

\* C22 witness: a worker's acquire_db_handler has thrown (it never held a
\* handle: none was constructed on demand and every warm handle is still
\* live or was drained), dbPoolMutex is free and another worker is about
\* to release its handle.
C22_Witness ==
    \E v, w \in Workers :
       /\ v # w
       /\ wpc[w] = "throwing"
       /\ constructed = 0
       /\ Cardinality(live) + drained = WarmSize
       /\ wpc[v] = "query" /\ handler[v] \in live
       /\ dbPoolMutex = Free

\* C23: when the constructor returns, dbPool holds exactly the configured
\* warm size of idle handles, database.pool_size or 10 when the key is
\* absent, all of them distinct and live, and no handle is checked out.
C23_WarmPoolAfterConstruction ==
    [][(ctor = "init_pool" /\ ctor' = "done")
          => /\ Len(dbPool') = (IF cfg = <<>> THEN 10 ELSE cfg[1])
             /\ Cardinality(SeqToSet(dbPool')) = Len(dbPool')
             /\ SeqToSet(dbPool') = live'
             /\ Leased' = 0]_vars

\* C23 witness: the configuration has no pool_size, the constructor has
\* returned and no request has been served yet: ten handles are idle.
C23_Witness ==
    /\ cfg = <<>>
    /\ ctor = "done"
    /\ submitted = 0
    /\ Len(dbPool) = 10

\* every submitted work item has ended
AllComplete ==
    /\ queue = <<>>
    /\ \A w \in Workers : wpc[w] = "idle" /\ witem[w] = NoItem

\* C24: with work items that each hold one handle and release it, the
\* number of handles constructed on demand never exceeds max(0, P - W) for
\* the warm size W and the peak P of simultaneously checked-out handles;
\* every submitted item completes; and once all have, at least W handles
\* are idle.
C24_OnDemandWithinPeak ==
    /\ [](constructed <= Max(0, peak - WarmSize))
    /\ [](AllComplete => IdleCount >= WarmSize)
    /\ \A i \in Items : (i <= submitted) ~> ItemDone(i)

\* C24 witness: two items held handles at the same time, as many handles
\* were constructed on demand as the peak exceeded the warm size, and all
\* items have completed with every handle idle again.
C24_Witness ==
    /\ AllComplete
    /\ submitted = MaxItems
    /\ peak >= 2
    /\ constructed = Max(0, peak - WarmSize)
    /\ IdleCount = WarmSize + constructed

\* C25: in every state after an accepted stop() has returned and before the
\* next start(), the idle queue dbPool is empty.
C25_PoolEmptyWhileStopped == svc = "Stopped" => dbPool = <<>>

\* C26: no thread holds dbPoolMutex while a blocking database operation is
\* in progress on a handle: not while a connection is being constructed
\* and not while a query runs.
C26_NoDbWorkUnderPoolLock ==
    \A w \in Workers :
       wpc[w] \in {"acq_create", "query"} => dbPoolMutex # W(w)

\* the positions at which a controller holds stopMtx
StopMtxHeldPcs == {"stop_join", "stop_timeout", "drain_joined", "drain_timeout"}

\* C27: the locks are taken in one order: a thread that holds dbPoolMutex
\* is inside acquire_db_handler constructing a handle and asks for no other
\* lock; a thread that holds stopMtx is inside stop() after the wait, waits
\* in join() only for a listener that is past line 79 and needs no lock,
\* and asks for dbPoolMutex at most; whoever holds a lock can go on, so no
\* cycle of waiting threads exists.
C27_LockOrderAcyclic ==
    /\ dbPoolMutex # Free
          => \E w \in Workers :
                /\ dbPoolMutex = W(w)
                /\ wpc[w] = "acq_create"
                /\ Alive => ENABLED (AcquireCreate(w) \/ AcquireCreateFail(w))
    /\ stopMtx # NoThread
          => /\ stopMtx \in Controllers
             /\ cpc[stopMtx] \in StopMtxHeldPcs
             /\ (cpc[stopMtx] = "stop_join" /\ serverThread # NoThread)
                   => listener[serverThread] \in {"notify", "done"}
    /\ \A c \in Controllers :
          (Alive /\ cpc[c] \in {"drain_joined", "drain_timeout"}
             /\ LockFree(dbPoolMutex)) => ENABLED StopDrain(c)

\* C27 witness: stop() holds stopMtx and is about to lock dbPoolMutex for
\* the drain while a worker holds dbPoolMutex inside acquire_db_handler.
C27_Witness ==
    /\ stopMtx = MainThread
    /\ cpc[MainThread] \in {"drain_joined", "drain_timeout"}
    /\ \E w \in Workers : dbPoolMutex = W(w) /\ wpc[w] = "acq_create"

\* C28: isRunning is set to false only by the listener thread, in the step
\* at the end of run_server (line 79); it is set to true only by start()
\* (line 44); no step of stop(), in either branch, and no step of any
\* other thread changes it.
C28_IsRunningWriters ==
    [][/\ (isRunning /\ ~isRunning')
             => /\ \E l \in Listeners :
                      listener[l] = "exited" /\ listener'[l] = "notify"
                /\ cpc' = cpc
       /\ (~isRunning /\ isRunning')
             => /\ \E c \in Controllers :
                      cpc[c] = "start_set" /\ cpc'[c] = "start_req"
                /\ listener' = listener
       /\ (\E c \in Controllers :
              /\ cpc'[c] # cpc[c]
              /\ cpc[c] \in StopPcs \/ cpc'[c] \in StopPcs)
             => isRunning' = isRunning]_vars

\* C28 witness: an accepted stop() has returned through the timeout branch
\* and isRunning is still true, the listener not having exited.
C28_Witness ==
    /\ svc = "Stopped"
    /\ isRunning
    /\ \A c \in Controllers : cpc[c] = "idle"
    /\ \E l \in Listeners : listener[l] \in {"setup", "listen"}

\* C29: whenever start() is about to assign serverThread (line 48) and
\* whenever the members of RestServer are about to be destroyed,
\* serverThread is not joinable.
C29_ThreadNotJoinable ==
    \A c \in Controllers :
       cpc[c] \in {"start_spawn", "dtor_members"} => serverThread = NoThread

\* C30: the test and the set of isRunning in start() are one atomic step:
\* of the start() calls in progress at most one has passed the guard.
C30_OneStartPastGuard == Cardinality(StartsInFlight) <= 1

\* the listener owned by serverThread has executed line 79
ListenerCleared ==
    serverThread # NoThread /\ listener[serverThread] \in {"notify", "done"}

\* C31: stop() enters the timeout branch only with isRunning still true at
\* the end of the wait, and a listener that has cleared isRunning is never
\* detached: neither when the wait ends nor when detach() is called.
C31_ExitedListenerNeverDetached ==
    [][\A c \in Controllers :
          /\ (cpc[c] \in {"stop_lock", "wait_blocked"}
                /\ cpc'[c] = "stop_timeout")
             => isRunning /\ ~ListenerCleared
          /\ (cpc[c] = "stop_timeout" /\ cpc'[c] = "drain_timeout")
             => ~ListenerCleared]_vars

\* a start() was accepted after an earlier listener had been spawned: the
\* service was restarted
Restarted == Cardinality(SpawnedListeners) >= 2
\* a stop() has joined or detached the listener that was spawned last
StopReleasedThread == SpawnedListeners # {} /\ serverThread = NoThread
\* the handles that init_db_pool constructed
WarmHandles == 1..PoolSize(cfg)

\* C32: a start() called after a stop() has returned and the listener has
\* exited is accepted: it sets isRunning, clears stopRequested and spawns a
\* new listener without std::terminate; once it has returned /health
\* answers OK; no step of start() touches the pool, and after the restart
\* dbPool holds no handle of the warm set, only handles that were
\* constructed on demand and released.
C32_RestartAfterStop ==
    /\ [][\A c \in Controllers :
            /\ (cpc[c] = "idle" /\ cpc'[c] \in StartPcs
                  /\ svc = "Stopped" /\ ~isRunning)
               => cpc'[c] = "start_set"
            /\ (cpc[c] = "start_spawn" /\ StopReleasedThread
                  /\ (cpc'[c] # cpc[c] \/ crashed'))
               => /\ ~crashed' /\ isRunning' /\ ~stopRequested'
                  /\ serverThread' # NoThread
                  /\ listener[serverThread'] = "none"
                  /\ listener'[serverThread'] = "setup"
            /\ (cpc[c] \in StartPcs /\ cpc'[c] # cpc[c])
               => UNCHANGED <<dbPool, live, constructed>>
            /\ (HealthAnswers /\ Restarted /\ svc = "Running"
                  /\ cpc[c] = "idle" /\ isRunning)
               => hres' = Healthy]_vars
    /\ [](Restarted => SeqToSet(dbPool) \cap WarmHandles = {})

\* the step in which the callback of a future-bridged route writes the
\* Response: result_future.get() has returned or thrown
CallbackAnswers(i) == cb[i] = "waiting" /\ cb'[i] = "returned"

C34_BridgedCallbackReturns ==
    \A i \in Items : (cb[i] = "waiting") ~> (cb[i] = "returned")

\* the local handles of the threads that use the pool: the work items'
\* db_handler and the db of the /order/create callback
Locals == [w \in Workers |-> handler[w]] \o <<ihandler>>
LocalsNext == [w \in Workers |-> handler'[w]] \o <<ihandler'>>

\* C35: dbPool is a FIFO queue of idle handles: it changes only by an
\* acquire that takes its front handle, by a release that appends the
\* returned handle at the back, and by the drain of stop(); so the front
\* handle is always the one that has been idle longest.
C35_IdleFifo ==
    [][/\ dbPool' # dbPool
          => \/ /\ dbPool # <<>>
                /\ dbPool' = Tail(dbPool)
                /\ \E t \in DOMAIN Locals :
                      Locals[t] = NoHandle /\ LocalsNext[t] = Head(dbPool)
             \/ \E t \in DOMAIN Locals :
                   /\ Locals[t] # NoHandle
                   /\ LocalsNext[t] = NoHandle
                   /\ dbPool' = Append(dbPool, Locals[t])
             \/ /\ dbPool' = <<>>
                /\ \E c \in Controllers :
                      cpc[c] \in {"drain_joined", "drain_timeout"}
       /\ \A t \in DOMAIN Locals :
             (Locals[t] = NoHandle /\ LocalsNext[t] \in SeqToSet(dbPool))
                => LocalsNext[t] = Head(dbPool)]_vars

\* C35 witness: the handle constructed on demand was released before the
\* warm one, so it is in front of it in dbPool.
C35_Witness ==
    /\ Len(dbPool) >= 2
    /\ dbPool[1] > WarmSize
    /\ dbPool[2] <= WarmSize
    /\ \A w \in Workers : handler[w] = NoHandle

\* the characters generate_short_id may use: [a-z0-9]
ShortIdAlphabet == {chars[k] : k \in 1..Len(chars)}
\* lowercase hexadecimal characters
HexAlphabet == {hex[k] : k \in 1..Len(hex)}

\* C36: for every length >= 1, generate_short_id(length) returns a string
\* of exactly length characters, each one of [a-z0-9].
C36_ShortIdLength ==
    (gen.fn = "short_id" /\ gen.pc = "returned" /\ gen.length >= 1)
       => /\ Len(gen.out) = gen.length
          /\ \A k \in 1..Len(gen.out) : gen.out[k] \in ShortIdAlphabet

\* the positions of the separators in a string of groups 8-4-4-4-12
DashPositions == {9, 14, 19, 24}

\* C37: generate_uuid returns 36 characters: lowercase hexadecimal digits
\* in groups of 8, 4, 4, 4 and 12, with a "-" between two groups (four in
\* all) and none at the end.
C37_UuidFormat ==
    (gen.fn = "uuid" /\ gen.pc = "returned")
       => /\ Len(gen.out) = 36
          /\ \A k \in 1..Len(gen.out) :
                IF k \in DashPositions THEN gen.out[k] = "-"
                                       ELSE gen.out[k] \in HexAlphabet
          /\ Cardinality({k \in 1..Len(gen.out) : gen.out[k] = "-"}) = 4

\* C37 witness: generate_uuid has returned a string that holds digits and
\* letters.
C37_Witness ==
    /\ gen.fn = "uuid" /\ gen.pc = "returned"
    /\ \E k \in 1..Len(gen.out) : gen.out[k] \in {"a", "b", "c", "d", "e", "f"}
    /\ \E k \in 1..Len(gen.out) : gen.out[k] \in {"0", "1", "2", "3", "4"}

====
